---- MODULE Spec2Model ----
(***************************************************************************)
(* Transaction webhook service: the ingest handler (receive_webhook), the  *)
(* background processor (process_transaction) and the transactions table   *)
(* they share.  Request handlers may be served by several worker processes *)
(* against the same database, and every background run has its own thread  *)
(* and its own session, so the steps below interleave at the granularity   *)
(* of one database statement group (a query, or a flush+commit).           *)
(***************************************************************************)
EXTENDS Integers, Sequences, FiniteSets, Bags, TLC

\* ---------------------------------------------------------------- bounds
\* The receive_webhook calls that may be between check and commit at once.
MaxReqs == 2
\* The process_transaction runs ever started.
MaxRuns == 2
\* The readings the wall clock can give.
MaxClock == 2

\* ------------------------------------------------------------ data model
\* A nullable column holds NULL or <<value>>.
NULL == <<>>

Some(v) == <<v>>

Ids == {"t1", "t2"}

\* The payloads a notification may carry (source_account, destination_account,
\* amount, currency).
Payloads ==
    { [source_account |-> "a", destination_account |-> "b", amount |-> 100, currency |-> "USD"],
      [source_account |-> "c", destination_account |-> "d", amount |-> 250, currency |-> "INR"] }

\* TransactionWebhook: the validated request body.
TransactionWebhook ==
    [transaction_id : Ids, payload : Payloads]

\* The exception classes the store raises.
OperationalError == "OperationalError"

IntegrityError == "IntegrityError"

RunIds == 1..MaxRuns

VARIABLES
    table,   \* the rows of table "transactions"
    now,     \* the last reading of the wall clock
    inflight,\* the receive_webhook calls between check and commit: their Transaction objects
    response,\* the response the service sent last
    runs     \* the process_transaction runs: position and caught exception

vars == <<table, now, inflight, response, runs>>

\* ------------------------------------------------------------------ store
\* Query(Transaction).filter(transaction_id == t): the matching rows.
Matching(t) == {row \in table : row.transaction_id = t}

\* .first(): a matching row, or None (reported as NULL).
First(t) ==
    IF Matching(t) = {} THEN NULL ELSE Some(CHOOSE row \in Matching(t) : TRUE)

\* The primary key: an INSERT of a key that is present raises IntegrityError.
InsertConflictsNoKey(t) == FALSE

InsertConflicts(t) == Matching(t) # {}

\* UPDATE without its WHERE clause: the new values go to every row.
UpdateEveryRow(t, set) ==
    {LET new == set[CHOOSE own \in Matching(t) : TRUE] IN
         [row EXCEPT !.status = new.status,
                     !.processed_at = new.processed_at,
                     !.processing_started_at = new.processing_started_at,
                     !.is_processing = new.is_processing,
                     !.error_message = new.error_message] : row \in table}

\* UPDATE transactions SET ... WHERE transaction_id = t, with the new row
\* given for each matching row.
Update(t, set) ==
    {IF row.transaction_id = t THEN set[row] ELSE row : row \in table}

\* Lines 60-69 with the two accounts the wrong way round.
NewTransactionSwapsAccounts(webhook, at) ==
    [transaction_id |-> webhook.transaction_id,
     source_account |-> webhook.payload.destination_account,
     destination_account |-> webhook.payload.source_account,
     amount |-> webhook.payload.amount,
     currency |-> webhook.payload.currency,
     status |-> "PROCESSING",
     created_at |-> at,
     processed_at |-> NULL,
     webhook_received_at |-> at,
     processing_started_at |-> NULL,
     is_processing |-> FALSE,
     error_message |-> NULL]

\* ------------------------------------------------------ receive_webhook
\* Transaction(...) as receive_webhook constructs it; the columns it leaves
\* out take the column defaults.
NewTransaction(webhook, at) ==
    [transaction_id |-> webhook.transaction_id,
     source_account |-> webhook.payload.source_account,
     destination_account |-> webhook.payload.destination_account,
     amount |-> webhook.payload.amount,
     currency |-> webhook.payload.currency,
     status |-> "PROCESSING",
     created_at |-> at,
     processed_at |-> NULL,
     webhook_received_at |-> at,
     processing_started_at |-> NULL,
     is_processing |-> FALSE,
     error_message |-> NULL]

IdleRun ==
    [pc |-> "idle", error |-> NULL, outcome |-> NULL]

\* The runs started so far, as <<transaction_id, number>>.
Started == {tk \in Ids \X RunIds : runs[tk[1]][tk[2]].pc # "idle"}

\* The next run of process_transaction(t): runs of one id are numbered in the
\* order they are started.
FreeRun(t, k) ==
    /\ Cardinality(Started) < MaxRuns
    /\ runs[t][k].pc = "idle"
    /\ \A j \in RunIds : j < k => runs[t][j].pc # "idle"

\* datetime.now(timezone.utc): a reading not before the last one.
Readings == now..MaxClock

NoResponse ==
    [transaction_id |-> NULL, status_code |-> NULL, error |-> NULL, body |-> NULL]

\* process_in_background that runs the coroutine to its end in the handler.
process_in_background_inline(t, k) ==
    [runs EXCEPT ![t][k] = [pc |-> "done", error |-> NULL, outcome |-> Some("processed")]]

\* process_in_background: a daemon thread is started that will run
\* process_transaction(transaction_id).
process_in_background(t, k) ==
    [runs EXCEPT ![t][k] = [pc |-> "start", error |-> NULL, outcome |-> NULL]]

\* Lines 57 and 80: 202 with {"message", "transaction_id"}.
Acknowledged(t) ==
    [transaction_id |-> Some(t), status_code |-> Some(202), error |-> NULL, body |-> NULL]

\* An exception leaves the handler: 500, whose body names no transaction.
ServerError(e) ==
    [transaction_id |-> NULL, status_code |-> Some(500), error |-> Some(e), body |-> NULL]

\* One call more, or one call fewer, between its check and its commit.
Enter(transaction) == inflight (+) SetToBag({transaction})

Leave(transaction) == inflight (-) SetToBag({transaction})

\* receive_webhook that writes the payload over the row it found.
receive_webhook_check_upsert(webhook) ==
    /\ BagCardinality(inflight) < MaxReqs
    /\ LET t == webhook.transaction_id IN
       \/ /\ First(t) # NULL
          /\ response' = Acknowledged(t)
          /\ table' = Update(t, [row \in Matching(t) |->
                                    [row EXCEPT !.amount = webhook.payload.amount,
                                                !.currency = webhook.payload.currency]])
          /\ UNCHANGED <<inflight, now>>
       \/ /\ First(t) = NULL
          /\ \E at \in Readings :
                /\ now' = at
                /\ inflight' = Enter(NewTransaction(webhook, at))
          /\ UNCHANGED <<response, table>>
    /\ UNCHANGED runs

\* Lines 47-69: the idempotency check.  A row found: 202 at once.  None found:
\* the new Transaction object is built and the call goes on to insert it.
receive_webhook_check(webhook) ==
    /\ BagCardinality(inflight) < MaxReqs
    /\ LET t == webhook.transaction_id IN
       \/ /\ First(t) # NULL
          /\ response' = Acknowledged(t)
          /\ UNCHANGED <<inflight, now>>
       \/ /\ First(t) = NULL
          /\ \E at \in Readings :
                /\ now' = at
                /\ inflight' = Enter(NewTransaction(webhook, at))
          /\ UNCHANGED response
    /\ UNCHANGED <<table, runs>>

\* The query of the idempotency check fails: the store is unavailable, the
\* exception leaves the handler and the caller gets a server error.
receive_webhook_check_fault ==
    /\ BagCardinality(inflight) < MaxReqs
    /\ response' = ServerError(OperationalError)
    /\ UNCHANGED <<table, now, inflight, runs>>

\* Lines 71-80: db.add, db.commit, db.refresh, process_in_background, 202.
receive_webhook_commit(transaction) ==
    /\ BagIn(transaction, inflight)
    /\ inflight' = Leave(transaction)
    /\ LET t == transaction.transaction_id IN
       \/ \* the INSERT violates the primary key
          /\ InsertConflicts(t)
          /\ response' = ServerError(IntegrityError)
          /\ UNCHANGED <<table, runs>>
       \/ /\ ~InsertConflicts(t)
          /\ \E k \in RunIds :
                /\ FreeRun(t, k)
                /\ table' = table \cup {transaction}
                /\ runs' = process_in_background(t, k)
                /\ response' = Acknowledged(t)
    /\ UNCHANGED now

\* db.commit fails: nothing is written.
receive_webhook_commit_fault(transaction) ==
    /\ BagIn(transaction, inflight)
    /\ inflight' = Leave(transaction)
    /\ response' = ServerError(OperationalError)
    /\ UNCHANGED <<table, now, runs>>

\* db.commit succeeds and db.refresh, the SELECT after it, fails: the row is
\* written, the exception leaves the handler before process_in_background.
receive_webhook_refresh_fault(transaction) ==
    /\ BagIn(transaction, inflight)
    /\ ~InsertConflicts(transaction.transaction_id)
    /\ inflight' = Leave(transaction)
    /\ table' = table \cup {transaction}
    /\ response' = ServerError(OperationalError)
    /\ UNCHANGED <<now, runs>>

\* ---------------------------------------------------- process_transaction
\* Line 26: the statuses a run does not touch.
IsTerminal(status) == status \in {"PROCESSED", "FAILED"}

\* Lines 31-32 left in the session: the commit of line 33 writes nothing.
MarkProcessingUncommitted(row, at) == row

\* Lines 31-32 with the time also written to webhook_received_at.
MarkProcessingStampsReceived(row, at) ==
    [row EXCEPT !.is_processing = TRUE, !.processing_started_at = Some(at),
                !.webhook_received_at = at]

\* Line 31 without line 32.
MarkProcessingFlagOnly(row, at) == [row EXCEPT !.is_processing = TRUE]

\* Lines 31-32: mark as processing.
MarkProcessing(row, at) ==
    [row EXCEPT !.is_processing = TRUE, !.processing_started_at = Some(at)]

\* Lines 41-43: mark as processed.
MarkProcessedKeepsFlag(row, at) ==
    [row EXCEPT !.status = "PROCESSED", !.processed_at = Some(at)]

MarkProcessedNoTime(row, at) ==
    [row EXCEPT !.status = "PROCESSED", !.is_processing = FALSE]

MarkProcessed(row, at) ==
    [row EXCEPT !.status = "PROCESSED", !.processed_at = Some(at), !.is_processing = FALSE]

\* Lines 54-56: mark as failed, with str(e) as the message.
MarkFailedNoMessage(row, e) ==
    [row EXCEPT !.status = "FAILED", !.is_processing = FALSE]

MarkFailedKeepsFlag(row, e) ==
    [row EXCEPT !.status = "FAILED", !.error_message = Some(e)]

MarkFailed(row, e) ==
    [row EXCEPT !.status = "FAILED", !.error_message = Some(e), !.is_processing = FALSE]

\* A run that has ended, and how.
EndRun(t, k, how) ==
    [runs EXCEPT ![t][k].pc = "done", ![t][k].outcome = Some(how)]

\* The exception is caught at line 48; a failed commit has rolled the session
\* back, so the changes pending in it are gone.
Caught(t, k, e) ==
    [runs EXCEPT ![t][k].pc = "except", ![t][k].error = Some(e)]

\* process_transaction without the check of lines 21-23.
process_transaction_load_unchecked(t, k) ==
    /\ runs[t][k].pc = "start"
    /\ LET found == First(t) IN
       runs' = IF found # NULL /\ IsTerminal(found[1].status)
               THEN EndRun(t, k, "skipped")
               ELSE [runs EXCEPT ![t][k].pc = "mark"]
    /\ UNCHANGED <<table, now, inflight, response>>

\* Lines 17-28: fetch the transaction, return if there is none or if it is
\* already PROCESSED or FAILED.
process_transaction_load(t, k) ==
    /\ runs[t][k].pc = "start"
    /\ LET found == First(t) IN
       runs' = IF found = NULL THEN EndRun(t, k, "not_found")
               ELSE IF IsTerminal(found[1].status) THEN EndRun(t, k, "skipped")
               ELSE [runs EXCEPT ![t][k].pc = "mark"]
    /\ UNCHANGED <<table, now, inflight, response>>

process_transaction_load_fault(t, k) ==
    /\ runs[t][k].pc = "start"
    /\ runs' = Caught(t, k, OperationalError)
    /\ UNCHANGED <<table, now, inflight, response>>

\* Lines 31-33: is_processing and processing_started_at are set and committed.
process_transaction_mark(t, k) ==
    /\ runs[t][k].pc = "mark"
    /\ \E at \in Readings :
          /\ now' = at
          /\ table' = Update(t, [row \in Matching(t) |-> MarkProcessing(row, at)])
    /\ runs' = [runs EXCEPT ![t][k].pc = "sleep"]
    /\ UNCHANGED <<inflight, response>>

process_transaction_mark_fault(t, k) ==
    /\ runs[t][k].pc = "mark"
    /\ runs' = Caught(t, k, OperationalError)
    /\ UNCHANGED <<table, now, inflight, response>>

\* Lines 38-44: the sleep is over; status, processed_at and is_processing are
\* set and committed.
process_transaction_finish(t, k) ==
    /\ runs[t][k].pc = "sleep"
    /\ \E at \in Readings :
          /\ now' = at
          /\ table' = Update(t, [row \in Matching(t) |-> MarkProcessed(row, at)])
    /\ runs' = EndRun(t, k, "processed")
    /\ UNCHANGED <<inflight, response>>

process_transaction_finish_fault(t, k) ==
    /\ runs[t][k].pc = "sleep"
    /\ runs' = Caught(t, k, OperationalError)
    /\ UNCHANGED <<table, now, inflight, response>>

\* Lines 48-57: the handler fetches the transaction again and, if there is
\* one, commits it as FAILED.
process_transaction_except(t, k) ==
    /\ runs[t][k].pc = "except"
    /\ IF First(t) = NULL
       THEN /\ runs' = EndRun(t, k, "no_row")
            /\ UNCHANGED table
       ELSE /\ table' = Update(t, [row \in Matching(t) |-> MarkFailed(row, runs[t][k].error[1])])
            /\ runs' = EndRun(t, k, "failed")
    /\ UNCHANGED <<now, inflight, response>>

\* The handler's own query or commit fails: the exception leaves
\* process_transaction and ends the thread; nothing is written.
process_transaction_except_fault(t, k) ==
    /\ runs[t][k].pc = "except"
    /\ runs' = EndRun(t, k, "crashed")
    /\ UNCHANGED <<table, now, inflight, response>>

\* process_transaction called for any id by something other than the
\* create path of receive_webhook.
process_transaction_call(t, k) ==
    /\ FreeRun(t, k)
    /\ runs' = process_in_background(t, k)
    /\ UNCHANGED <<table, now, inflight, response>>

\* ----------------------------------------------------------- the queries
HTTPException == "HTTPException"

\* Line 94: 404 for the id of the path.
NotFoundEmpty(t) ==
    [transaction_id |-> Some(t), status_code |-> Some(200), error |-> NULL, body |-> Some(<<>>)]

NotFound(t) ==
    [transaction_id |-> Some(t), status_code |-> Some(404), error |-> Some(HTTPException),
     body |-> NULL]

\* Lines 96 and 108: 200 with the list of the rows found, each handed to
\* TransactionResponse.model_validate; transaction_id is the id of the path,
\* NULL for the list of all.
Found(path, rows) ==
    [transaction_id |-> path, status_code |-> Some(200), error |-> NULL, body |-> Some(rows)]

\* Lines 84-96: get_transaction.
get_transaction(t) ==
    /\ response' = IF First(t) = NULL THEN NotFound(t) ELSE Found(Some(t), <<First(t)[1]>>)
    /\ UNCHANGED <<table, now, inflight, runs>>

\* order_by(Transaction.webhook_received_at.desc()): rows is in that order.
OrderedAscending(rows) ==
    \A i, j \in 1..Len(rows) :
        i < j => rows[i].webhook_received_at <= rows[j].webhook_received_at

Ordered(rows) ==
    \A i, j \in 1..Len(rows) :
        i < j => rows[i].webhook_received_at >= rows[j].webhook_received_at

\* .all(): every row once; rows of equal webhook_received_at come in any order.
All ==
    {rows \in [1..Cardinality(table) -> table] :
        /\ \A row \in table : \E i \in 1..Cardinality(table) : rows[i] = row
        /\ Ordered(rows)}

\* Lines 100-108: list_transactions.
list_transactions ==
    /\ \E rows \in All : response' = Found(NULL, rows)
    /\ UNCHANGED <<table, now, inflight, runs>>

\* The query of get_transaction or of list_transactions fails.
query_fault ==
    /\ response' = ServerError(OperationalError)
    /\ UNCHANGED <<table, now, inflight, runs>>

\* ------------------------------------------------- start_background_task
\* Lines 67-69: a new event loop is made the current one and the coroutine is
\* wrapped in a task of that loop.  Nothing runs the loop (there is no
\* run_forever and no run_until_complete), so no step executes the task.
start_background_task(t, k) ==
    /\ FreeRun(t, k)
    /\ runs' = [runs EXCEPT ![t][k] = [pc |-> "pending", error |-> NULL, outcome |-> NULL]]
    /\ UNCHANGED <<table, now, inflight, response>>

Init ==
    /\ table = {}
    /\ now = 1
    /\ inflight = EmptyBag
    /\ response = NoResponse
    /\ runs = [t \in Ids |-> [k \in RunIds |-> IdleRun]]

\* The Transaction objects a call may hold: those in flight.
Transactions == BagToSet(inflight)

Ingest ==
    \/ \E webhook \in TransactionWebhook : receive_webhook_check(webhook)
    \/ receive_webhook_check_fault
    \/ \E transaction \in Transactions :
          \/ receive_webhook_commit(transaction)
          \/ receive_webhook_commit_fault(transaction)
          \/ receive_webhook_refresh_fault(transaction)

Process ==
    \E t \in Ids, k \in RunIds :
        \/ process_transaction_load(t, k)
        \/ process_transaction_load_fault(t, k)
        \/ process_transaction_mark(t, k)
        \/ process_transaction_mark_fault(t, k)
        \/ process_transaction_finish(t, k)
        \/ process_transaction_finish_fault(t, k)
        \/ process_transaction_except(t, k)
        \/ process_transaction_except_fault(t, k)

Next ==
    \/ Ingest
    \/ Process

\* The service: runs are started by receive_webhook only.
Spec == Init /\ [][Next]_vars

DirectCall == \E t \in Ids, k \in RunIds : process_transaction_call(t, k)

NextDirect ==
    \/ Next
    \/ DirectCall

\* The service, with process_transaction also called directly.
SpecDirect == Init /\ [][NextDirect]_vars

\* A started thread is scheduled and asyncio.sleep(30) returns: a run that can
\* take its next step without a fault being raised takes it or faults.
Proceed(t, k) ==
    \/ process_transaction_load(t, k)
    \/ process_transaction_mark(t, k)
    \/ process_transaction_finish(t, k)

Fairness == \A t \in Ids, k \in RunIds : WF_vars(Proceed(t, k))

\* The service, with every run scheduled.
FairSpec == Spec /\ Fairness

Query ==
    \/ \E t \in Ids : get_transaction(t)
    \/ list_transactions
    \/ query_fault

NextQuery ==
    \/ Next
    \/ Query

\* The service with its queries.
SpecQuery == Init /\ [][NextQuery]_vars

TaskCall == \E t \in Ids, k \in RunIds : start_background_task(t, k)

NextTask ==
    \/ Next
    \/ TaskCall

\* The service, with start_background_task also called, every run scheduled.
FairSpecTask == Init /\ [][NextTask]_vars /\ Fairness

\* ------------------------------------------------------------ properties
Terminal(row) == row.status \in {"PROCESSED", "FAILED"}

\* The runs started for t.
RunsOf(t) == {k \in RunIds : runs[t][k].pc # "idle"}

\* The calls in flight for t: each has found no row of t and built its own.
InflightFor(t) == {x \in BagToSet(inflight) : x.transaction_id = t}

Observers(t) ==
    IF InflightFor(t) = {} THEN 0
    ELSE LET count[S \in SUBSET InflightFor(t)] ==
                 IF S = {} THEN 0
                 ELSE LET x == CHOOSE x \in S : TRUE
                      IN CopiesIn(x, inflight) + count[S \ {x}]
         IN count[InflightFor(t)]

\* A row in a non-terminal status that no run was ever started for.
Orphan(t) == \E row \in Matching(t) : ~Terminal(row) /\ RunsOf(t) = {}

\* C1: idempotency.  Every id has at most one row, exactly one once a call for
\* it was acknowledged, and every call is acknowledged with 202: a 500 is sent
\* only when the store itself failed (OperationalError).
C1_Idempotency ==
    /\ \A t \in Ids : Cardinality(Matching(t)) <= 1
    /\ \A t \in Ids : response = Acknowledged(t) => Cardinality(Matching(t)) = 1
    /\ response.status_code = Some(500) => response.error = Some(OperationalError)

\* C2: the existence check and the insert are one atomic unit.  No two calls
\* have both found the same id absent: for every id, the calls holding a new
\* Transaction for it, plus the row if it is already written, number at most one.
C2_AtomicGate ==
    \A t \in Ids :
        Observers(t) + (IF Matching(t) = {} THEN 0 ELSE 1) <= 1

\* C3: at most one run of process_transaction is ever started for an id, and a
\* run is started only in the step in which a call inserts the row of that id
\* and is acknowledged; a call that finds the row starts none.
C3_Dispatch ==
    \A t \in Ids :
        (\E k \in RunIds : runs[t][k].pc = "idle" /\ runs'[t][k].pc # "idle") =>
            /\ Matching(t) = {}
            /\ Matching(t)' # {}
            /\ response' = Acknowledged(t)
            /\ RunsOf(t) = {}

C3_AtMostOneRun ==
    /\ [](\A t \in Ids : Cardinality(RunsOf(t)) <= 1)
    /\ [][C3_Dispatch]_vars

\* C3 witness: a call lost the race for an id (IntegrityError) and the id has
\* its one run.
C3_Witness ==
    /\ response.error = Some(IntegrityError)
    /\ \E t \in Ids : Cardinality(RunsOf(t)) = 1 /\ Matching(t) # {}

\* C4: terminal absorption.  A row whose status is PROCESSED or FAILED is
\* never changed by a later step, whichever run takes it.
C4_TerminalAbsorption ==
    [][\A row \in table : Terminal(row) => row \in table']_vars

\* C5: state progression.  A row is inserted with status PROCESSING (or
\* RECEIVED), and once a run is started for an id, then unless a fault is
\* raised in that run the row becomes PROCESSED with processed_at set and
\* is_processing false.
C5_Inserted ==
    \A row \in table' \ table :
        Matching(row.transaction_id) = {} => row.status \in {"PROCESSING", "RECEIVED"}

C5_Processed(t) ==
    \E row \in Matching(t) :
        row.status = "PROCESSED" /\ row.processed_at # NULL /\ row.is_processing = FALSE

C5_Faulted(t) == \E k \in RunsOf(t) : runs[t][k].error # NULL

C5_StateProgression ==
    /\ [][C5_Inserted]_vars
    /\ \A t \in Ids : (RunsOf(t) # {}) ~> (C5_Processed(t) \/ C5_Faulted(t))

\* C5 witness: a run has ended without a fault and its row is PROCESSED.
C5_Witness ==
    \E t \in Ids :
        /\ runs[t][1].outcome = Some("processed")
        /\ runs[t][1].error = NULL
        /\ C5_Processed(t)

\* C6: when a call fails with a server error because the store failed, no id
\* is left with a row in a non-terminal status and no run started for it.
C6_NoOrphanAfterFailedIngest ==
    response.error = Some(OperationalError) => \A t \in Ids : ~Orphan(t)

C8_ProcessedAtIffProcessed ==
    \A row \in table : (row.processed_at # NULL) <=> (row.status = "PROCESSED")

\* C8 witness: a row that ended FAILED after a fault in the final transition
\* (it had been marked as processing), and a row that is PROCESSED.
C8_Witness ==
    /\ \E row \in table :
          /\ row.status = "FAILED"
          /\ row.processing_started_at # NULL
          /\ row.processed_at = NULL
    /\ \E row \in table : row.status = "PROCESSED" /\ row.processed_at # NULL

\* C9: error_message is set if and only if status = FAILED.
C9_ErrorMessageIffFailed ==
    \A row \in table : (row.error_message # NULL) <=> (row.status = "FAILED")

\* C9 witness: a FAILED row with its message beside a row that is not FAILED.
C9_Witness ==
    /\ \E row \in table : row.status = "FAILED" /\ row.error_message = Some(OperationalError)
    /\ \E row \in table : row.status # "FAILED" /\ row.error_message = NULL

\* C10: is_processing = true implies status = PROCESSING.
C10_IsProcessingImpliesProcessing ==
    \A row \in table : row.is_processing => row.status = "PROCESSING"

\* C10 witness: a row being processed beside a row whose run has ended.
C10_Witness ==
    /\ \E row \in table : row.is_processing /\ row.status = "PROCESSING"
    /\ \E row \in table : ~row.is_processing /\ Terminal(row)
\* The status edges of the lifecycle.
StatusEdges ==
    { <<"RECEIVED", "PROCESSING">>, <<"PROCESSING", "PROCESSED">>,
      <<"PROCESSING", "FAILED">> }

\* C11: the status of a record changes only along RECEIVED -> PROCESSING,
\* PROCESSING -> PROCESSED and PROCESSING -> FAILED: no step moves a status
\* backwards, between PROCESSED and FAILED, or out of a terminal status, and no
\* step removes a record.
C11_StatusEdges ==
    [][\A row \in table :
          /\ Matching(row.transaction_id)' # {}
          /\ \A next \in table' :
                (next.transaction_id = row.transaction_id /\ next.status # row.status)
                    => <<row.status, next.status>> \in StatusEdges]_vars

\* The step is receive_webhook answering 202 for t without inserting: nothing
\* is in flight more or less than before and no run has moved.
C12_AcknowledgesExisting(t) ==
    /\ Matching(t) # {}
    /\ response' = Acknowledged(t)
    /\ inflight' = inflight
    /\ runs' = runs

\* C12: an ingest call for an id that already has a record, whatever the
\* record's status and whatever the payload, leaves every field of the record
\* unchanged, raises no error and is acknowledged with 202.
C12_DuplicateIsNoOp ==
    [][/\ \A t \in Ids : C12_AcknowledgesExisting(t) => table' = table
       /\ \A webhook \in TransactionWebhook :
             (/\ Matching(webhook.transaction_id) # {}
              /\ inflight' = inflight
              /\ receive_webhook_check(webhook))
                 => /\ response' = Acknowledged(webhook.transaction_id)
                    /\ UNCHANGED <<table, inflight, runs>>]_vars

\* C12 witness: a 202 for an id whose row exists and for which no run was ever
\* started. The creating call starts a run with its 202, so this 202 is that
\* of a later call that found the row (left by a call that failed in refresh).
C12_Witness ==
    \E t \in Ids :
        /\ response = Acknowledged(t)
        /\ Matching(t) # {}
        /\ RunsOf(t) = {}

\* The step starts the first run for t: it is the creating call's.
C13_Creating(t) == RunsOf(t) = {} /\ RunsOf(t)' # {}

\* The step is a step of a run that had been started.
C13_RunStep ==
    \E t \in Ids, k \in RunIds : runs[t][k].pc # "idle" /\ runs'[t][k] # runs[t][k]

\* C13: a creating ingest call returns its acknowledgement without waiting for
\* the background run it dispatched: at the 202 the run has not taken a step
\* and the record is still non-terminal, and no later step of a run, whether it
\* succeeds or fails, changes the response that was sent.
C13_AckBeforeRun ==
    [][/\ \A t \in Ids :
             C13_Creating(t)
                 => /\ response' = Acknowledged(t)
                    /\ \A k \in RunsOf(t)' : runs'[t][k].pc = "start"
                    /\ \A row \in Matching(t)' : ~Terminal(row)
       /\ C13_RunStep => response' = response]_vars

\* C13 witness: the 202 for t is out and the run for t is in its wait, the
\* record still PROCESSING.
C13_Witness ==
    \E t \in Ids :
        /\ response = Acknowledged(t)
        /\ \E k \in RunIds : runs[t][k].pc = "sleep"
        /\ \E row \in Matching(t) : row.status = "PROCESSING"

\* The rows a step inserts.
C14_Inserted == {row \in table' : Matching(row.transaction_id) = {}}

\* The object carries the payload fields of the notification.
C14_Carries(transaction, webhook) ==
    /\ transaction.transaction_id = webhook.transaction_id
    /\ transaction.source_account = webhook.payload.source_account
    /\ transaction.destination_account = webhook.payload.destination_account
    /\ transaction.amount = webhook.payload.amount
    /\ transaction.currency = webhook.payload.currency

\* What receive_webhook, having found no record, builds for the notification
\* has the given status and the payload fields; what is inserted is such an
\* object, put in a table that had no row for the id.
C14_Persists(status) ==
    /\ \A webhook \in TransactionWebhook :
          (inflight' # inflight /\ table' = table /\ receive_webhook_check(webhook))
              => \E transaction \in BagToSet(inflight') :
                    /\ inflight' = Enter(transaction)
                    /\ transaction.status = status
                    /\ C14_Carries(transaction, webhook)
    /\ \A row \in C14_Inserted :
          /\ BagIn(row, inflight)
          /\ row.status = status

\* C14 as stated: when the ingest gate finds no record for the id, it persists
\* a new record with status RECEIVED and the payload fields of the
\* notification, then reports CREATED.
C14_CreatesReceived ==
    [][/\ C14_Persists("RECEIVED")
       /\ \A row \in C14_Inserted : response' = Acknowledged(row.transaction_id)]_vars

\* C14 amended: when receive_webhook finds no record for the id, the record it
\* persists has status PROCESSING and the payload fields of the notification;
\* a call that reports creation (the 202 that starts the run) has inserted
\* that record.
C14_CreatesProcessing ==
    [][/\ C14_Persists("PROCESSING")
       /\ \A t \in Ids :
             C13_Creating(t)
                 => /\ response' = Acknowledged(t)
                    /\ \E row \in C14_Inserted : row.transaction_id = t]_vars

\* C14 witness: the row as inserted, its 202 out and its run not yet begun.
C14_Witness ==
    \E row \in table :
        /\ row.status = "PROCESSING"
        /\ row.processing_started_at = NULL
        /\ ~row.is_processing
        /\ response = Acknowledged(row.transaction_id)
        /\ \E k \in RunIds : runs[row.transaction_id][k].pc = "start"

\* The step sends a new response of get_transaction for t.
C15_Gets(t) ==
    /\ response' # response
    /\ response'.transaction_id = Some(t)
    /\ response'.status_code \in {Some(200), Some(404)}

\* The step sends a new response of list_transactions.
C15_Lists ==
    /\ response' # response
    /\ response'.transaction_id = NULL
    /\ response'.status_code = Some(200)

\* C15: get_transaction returns the currently persisted record for a known id
\* and a 404 not-found for an unknown id, and neither get_transaction nor
\* list_transactions changes or creates a record or dispatches a run.
C15_QueriesReadOnly ==
    [][/\ \A t \in Ids :
             C15_Gets(t)
                 => /\ UNCHANGED <<table, now, inflight, runs>>
                    /\ IF Matching(t) = {}
                       THEN /\ response'.status_code = Some(404)
                            /\ response'.body = NULL
                       ELSE /\ response'.status_code = Some(200)
                            /\ \E row \in Matching(t) : response'.body = Some(<<row>>)
       /\ C15_Lists => UNCHANGED <<table, now, inflight, runs>>
       /\ \A t \in Ids :
             (response' # response /\ runs' = runs /\ get_transaction(t)) => C15_Gets(t)
       /\ (response' # response /\ runs' = runs /\ list_transactions) => C15_Lists]_vars

\* C15 witness: the last response is the record of t as it is stored now, in
\* its terminal status; the other id is unknown.
C15_Witness ==
    \E t \in Ids :
        /\ response.status_code = Some(200)
        /\ response.transaction_id = Some(t)
        /\ \E row \in Matching(t) : Terminal(row) /\ response.body = Some(<<row>>)
        /\ \E u \in Ids : Matching(u) = {}

\* C16: list_transactions returns every stored record exactly once, ordered by
\* webhook_received_at descending: a record received later never comes after a
\* record received earlier.
C16_ListAllNewestFirst ==
    [][C15_Lists
          => LET rows == response'.body[1] IN
             /\ Len(rows) = Cardinality(table)
             /\ \A row \in table :
                   Cardinality({i \in 1..Len(rows) : rows[i] = row}) = 1
             /\ \A i, j \in 1..Len(rows) :
                   rows[i].webhook_received_at < rows[j].webhook_received_at => j < i]_vars

\* C16 witness: a list of two records, the one received later first.
C16_Witness ==
    /\ response.transaction_id = NULL
    /\ response.status_code = Some(200)
    /\ Len(response.body[1]) = 2
    /\ response.body[1][1].webhook_received_at > response.body[1][2].webhook_received_at
    /\ response.body[1][1] \in table
    /\ response.body[1][2] \in table

\* The run k of t is in its wait.
C17_Waiting(t, k) == runs[t][k].pc = "sleep"

\* C17: the run holds no uncommitted write across the simulated wait:
\* is_processing = true and processing_started_at are in the store before the
\* wait begins, and a query made during the wait is answered with them.
C17_CommittedBeforeWait ==
    /\ [](\A t \in Ids, k \in RunIds :
             C17_Waiting(t, k)
                 => \E row \in Matching(t) :
                       row.is_processing /\ row.processing_started_at # NULL)
    /\ [][\A t \in Ids, k \in RunIds :
             (C17_Waiting(t, k) /\ C15_Gets(t))
                 => /\ response'.status_code = Some(200)
                    /\ response'.body[1][1].is_processing
                    /\ response'.body[1][1].processing_started_at # NULL]_vars

\* C17 witness: a query answered during the wait of the run for t, with the
\* row as the run committed it; a second ingest call is between its lookup and
\* its commit meanwhile.
C17_Witness ==
    \E t \in Ids, k \in RunIds :
        /\ C17_Waiting(t, k)
        /\ response.status_code = Some(200)
        /\ response.transaction_id = Some(t)
        /\ response.body[1][1].is_processing
        /\ inflight # EmptyBag

\* The step is a step of the run k of t.
C18_StepOf(t, k) == runs[t][k].pc # "idle" /\ runs'[t][k] # runs[t][k]

\* C18: a process_transaction run for an id that has no record ends there
\* without an error, and creates or changes no record.
C18_AbsentEndsSilently ==
    [][\A t \in Ids, k \in RunIds :
          (C18_StepOf(t, k) /\ Matching(t) = {})
              => /\ table' = table
                 /\ (runs[t][k].pc = "start" /\ runs'[t][k].error = NULL)
                        => runs'[t][k] = [pc |-> "done", error |-> NULL,
                                          outcome |-> Some("not_found")]]_vars

\* C18 witness: a run that ended on finding no record, the id still unknown
\* and another id's record in the store.
C18_Witness ==
    \E t \in Ids, k \in RunIds :
        /\ runs[t][k].outcome = Some("not_found")
        /\ Matching(t) = {}
        /\ table # {}

\* C19: start_background_task(transaction_id) returns and the transaction is
\* then processed in the background: for a stored non-terminal record the run
\* eventually executes and the record eventually reaches a terminal status.
C19_TaskProcesses ==
    \A t \in Ids, k \in RunIds :
        [](  (runs[t][k].pc = "pending" /\ \E row \in Matching(t) : ~Terminal(row))
             => /\ <>(runs[t][k].pc # "pending")
                /\ <>(\A row \in Matching(t) : Terminal(row)))

\* C20: runs for different ids are independent: a step of a run for one id
\* leaves the records of every other id as they are, and a step that changes
\* the fields of a record is a step of a run for that record's id.
C20_RunsIndependent ==
    [][/\ \A t \in Ids, k \in RunIds :
             C18_StepOf(t, k)
                 => \A u \in Ids \ {t} : Matching(u)' = Matching(u)
       /\ \A row \in table :
             row \notin table' => \E k \in RunIds : C18_StepOf(row.transaction_id, k)]_vars

\* C20 witness: the run for one id has written PROCESSED while the record of
\* the other id is as it was inserted, its own run not yet begun.
C20_Witness ==
    \E t \in Ids, u \in Ids :
        /\ t # u
        /\ \E row \in Matching(t) : row.status = "PROCESSED"
        /\ \E k \in RunIds : runs[u][k].pc = "start"
        /\ \E row \in Matching(u) :
              /\ row.status = "PROCESSING"
              /\ ~row.is_processing
              /\ row.processing_started_at = NULL

\* The two rows agree on the fields the creating call wrote.
C21_SameCreation(row, next) ==
    /\ next.transaction_id = row.transaction_id
    /\ next.source_account = row.source_account
    /\ next.destination_account = row.destination_account
    /\ next.amount = row.amount
    /\ next.currency = row.currency
    /\ next.created_at = row.created_at
    /\ next.webhook_received_at = row.webhook_received_at

\* C21: once a record exists for an id it exists in every later state, and its
\* transaction_id, source_account, destination_account, amount, currency,
\* created_at and webhook_received_at keep the values the creating call wrote:
\* no step of a duplicate ingest, a query or a background run changes them.
C21_CreationFieldsKept ==
    [][\A row \in table :
          /\ Matching(row.transaction_id)' # {}
          /\ \A next \in Matching(row.transaction_id)' : C21_SameCreation(row, next)]_vars

\* C21 witness: a record received at time 1 that a run has since marked and
\* finished at time 2, returned by a query as it is stored.
C21_Witness ==
    \E row \in table :
        /\ row.status = "PROCESSED"
        /\ row.created_at = 1
        /\ row.webhook_received_at = 1
        /\ row.processing_started_at = Some(2)
        /\ row.processed_at = Some(2)
        /\ response = Found(Some(row.transaction_id), <<row>>)

\* C22: whenever a record has status PROCESSED its processing_started_at is
\* set, and it was written in an earlier step than processed_at: the step that
\* writes PROCESSED finds processing_started_at in the store already, and
\* processing_started_at is only ever first written together with
\* is_processing = true.
C22_StartedBeforeProcessed ==
    /\ [](\A row \in table :
             row.status = "PROCESSED" => row.processing_started_at # NULL)
    /\ [][\A row \in table : \A next \in Matching(row.transaction_id)' :
             /\ (next.status = "PROCESSED" /\ next.processed_at # row.processed_at)
                    => /\ row.processing_started_at # NULL
                       /\ next.processing_started_at = row.processing_started_at
             /\ (row.status # "PROCESSED" /\ next.status = "PROCESSED")
                    => row.processing_started_at # NULL
             /\ (row.processing_started_at = NULL /\ next.processing_started_at # NULL)
                    => next.is_processing]_vars

\* C22 witness: a PROCESSED record whose processing_started_at was read from
\* the clock before its processed_at.
C22_Witness ==
    \E row \in table :
        /\ row.status = "PROCESSED"
        /\ row.processing_started_at = Some(1)
        /\ row.processed_at = Some(2)

====
